---- MODULE Spec2Model ----
(***************************************************************************)
(* Receipt ingestion of the finance tracker: the OCR pipeline              *)
(* (parseBankReceiptPDF, extractTextWithOCR, pdfToImageDataURL) and the    *)
(* field extractor (extractField, parseBankReceiptText) of                 *)
(* src/unnamed/part_000.                                                   *)
(*                                                                         *)
(* A string of the program is a sequence of one-character strings; an      *)
(* optional value (T | undefined) is <<>> when undefined and <<v>> when    *)
(* defined, so that undefined and the empty string "" differ.              *)
(***************************************************************************)
EXTENDS Naturals, Integers, Sequences, FiniteSets, TLC

VARIABLES
    pc,         \* per call: the await the call is suspended at
    file,       \* per call: the File argument, <<>> before the call
    callback,   \* per call: whether onProgress was supplied
    worker,     \* per call: extractTextWithOCR's local `worker` (engine id, 0 = none)
    engines,    \* every engine createWorker has returned, by id
    created,    \* per call: number of createWorker invocations
    pdfOpen,    \* per call: a loaded pdf document that was not destroyed
    pdfLoaded,  \* per call: getDocument resolved in this call
    bytesRead,  \* per call: the file's bytes were requested
    source,     \* per call: what was handed to worker.recognize
    ocrText,    \* per call: the text worker.recognize resolved with
    pending,    \* per call: completion of the try block while finally runs
    progress,   \* per call: the values passed to onProgress, in order
    result,     \* per call: what the returned promise settled with
    caught,     \* per call: the value that reached parseBankReceiptPDF's catch
    env,        \* behaviour of the libraries: free, or one fixed behaviour
    text,       \* field extractor: the fragments of the transcription so far
    parsed,     \* field extractor: <<>> or <<[of, data]>>, the last extraction
    store,      \* database: the expenses object store, by record id
    queried,    \* database: <<>> or <<[filter, outcome]>>, the last query
    currentFilterRef, \* useExpenses: currentFilterRef.current
    expenses,   \* useExpenses: the expenses state
    categories, \* useExpenses: the categories state
    loading,    \* useExpenses: the loading state
    error,      \* useExpenses: the error state
    ops,        \* useExpenses: the calls in flight, each at its pending await
    activeTab,  \* Root: the activeTab state
    selectedPeriod,   \* HomePage: the selectedPeriod state
    selectedCategory, \* ExpensesPage: the selectedCategory state
    dbInstance, \* database: the module's dbInstance, 0 for null, else a connection
    opened,     \* database: number of openDB calls so far, each a new connection
    getters     \* database: per caller of getDatabase, where it stands

pipelineVars == <<pc, file, callback, worker, engines, created, pdfOpen, pdfLoaded,
                  bytesRead, source, ocrText, pending, progress, result, caught,
                  env>>
parseVars == <<text, parsed>>
storeVars == <<store, queried>>
hookVars == <<currentFilterRef, expenses, categories, loading, error, ops>>
pageVars == <<activeTab, selectedPeriod, selectedCategory>>
dbVars == <<dbInstance, opened, getters>>
appVars == <<store, queried, currentFilterRef, expenses, categories, loading, error,
             ops, activeTab, selectedPeriod, selectedCategory, dbInstance, opened,
             getters>>
vars == <<pc, file, callback, worker, engines, created, pdfOpen, pdfLoaded,
          bytesRead, source, ocrText, pending, progress, result, caught,
          env, text, parsed, store, queried, currentFilterRef, expenses,
          categories, loading, error, ops, activeTab, selectedPeriod,
          selectedCategory, dbInstance, opened, getters>>

----------------------------------------------------------------------------
(* Bounds *)

\* number of extraction calls that may be in flight together
NumCalls == 2

\* number of fragments a generated transcription is made of
MaxFrags == 3

\* number of lines a generated receipt is made of
MaxLines == 3

\* number of expenses ever added to the expenses object store
MaxExpenses == 2

\* number of operations of useExpenses a caller starts while others are in flight
NumOps == 2

\* number of callers of getDatabase
NumGetters == 3

Calls == 1..NumCalls

----------------------------------------------------------------------------
(* Strings *)

Undefined == <<>>
Some(v) == <<v>>

\* JavaScript white space (String.prototype.trim, regexp \s) within the alphabet
WhiteSpace == {" ", "\n", "\t", "\r"}

RECURSIVE TrimStart(_)
TrimStart(s) ==
    IF s # <<>> /\ Head(s) \in WhiteSpace THEN TrimStart(Tail(s)) ELSE s

RECURSIVE TrimEnd(_)
TrimEnd(s) ==
    IF s # <<>> /\ s[Len(s)] \in WhiteSpace
    THEN TrimEnd(SubSeq(s, 1, Len(s) - 1))
    ELSE s

\* String.prototype.trim
Trim(s) == TrimEnd(TrimStart(s))

----------------------------------------------------------------------------
(* Regular expressions of the field extractor.                             *)
(* Every pattern of parseBankReceiptText is a concatenation of greedily    *)
(* quantified character classes with one capturing group: an item is       *)
(* [set, neg, lo, hi, unbounded], the class being `set` (its complement    *)
(* when neg), repeated lo..hi times (lo.. when unbounded).                 *)

LowerCase == <<"a","b","c","d","e","f","g","h","i","j","k","l","m",
               "n","o","p","q","r","s","t","u","v","w","x","y","z","U+00E3">>
UpperCase == <<"A","B","C","D","E","F","G","H","I","J","K","L","M",
               "N","O","P","Q","R","S","T","U","V","W","X","Y","Z","U+00C3">>

\* the characters equal to ch under the i flag (Canonicalize: toUpperCase)
Fold(ch) ==
    {ch} \cup {LowerCase[i] : i \in {j \in DOMAIN UpperCase : UpperCase[j] = ch}}
         \cup {UpperCase[i] : i \in {j \in DOMAIN LowerCase : LowerCase[j] = ch}}

Digits == {"0","1","2","3","4","5","6","7","8","9"}

Item(set, neg, lo, hi, unbounded) ==
    [set |-> set, neg |-> neg, lo |-> lo, hi |-> hi, unbounded |-> unbounded]

One(set) == Item(set, FALSE, 1, 1, FALSE)          \* [set]
Opt(set) == Item(set, FALSE, 0, 1, FALSE)          \* [set]?
Plus(set) == Item(set, FALSE, 1, 1, TRUE)          \* [set]+
Star(set) == Item(set, FALSE, 0, 0, TRUE)          \* [set]*
Rep(set, lo, hi) == Item(set, FALSE, lo, hi, FALSE) \* [set]{lo,hi}
NotPlus(set) == Item(set, TRUE, 1, 1, TRUE)        \* [^set]+

\* a literal word under the i flag
Word(w) == [i \in 1..Len(w) |-> One(Fold(w[i]))]

\* whether character ch is in the class of item it
InClass(it, ch) == (ch \in it.set) # it.neg

\* the longest run of the item's class at position pos (1-based) of t,
\* cut at the item's upper bound
RECURSIVE MaxRun(_, _, _, _)
MaxRun(t, it, pos, n) ==
    IF pos + n <= Len(t) /\ InClass(it, t[pos + n]) /\ (it.unbounded \/ n < it.hi)
    THEN MaxRun(t, it, pos, n + 1)
    ELSE n

\* Backtracking match of items k.. at position pos: <<>> when there is
\* none, else <<b>>, b the start position of each item k.. followed by the
\* end position of the match. A quantifier is greedy: the longest run is
\* tried first, then shorter ones.
RECURSIVE MatchAt(_, _, _, _)
RECURSIVE TryCount(_, _, _, _, _)
MatchAt(t, items, k, pos) ==
    IF k > Len(items)
    THEN << <<pos>> >>
    ELSE TryCount(t, items, k, pos, MaxRun(t, items[k], pos, 0))

TryCount(t, items, k, pos, n) ==
    IF n < items[k].lo
    THEN <<>>
    ELSE LET r == MatchAt(t, items, k + 1, pos + n)
         IN IF r # <<>>
            THEN << <<pos>> \o r[1] >>
            ELSE TryCount(t, items, k, pos, n - 1)

\* leftmost match: the first start position from which the pattern matches
RECURSIVE Search(_, _, _)
Search(t, p, start) ==
    IF start > Len(t) + 1
    THEN <<>>
    ELSE LET r == MatchAt(t, p.items, 1, start)
         IN IF r # <<>> THEN r ELSE Search(t, p, start + 1)

\* text.match(pattern): <<>> (null) or <<capture group 1>>
Match(t, p) ==
    LET r == Search(t, p, 1)
    IN IF r = <<>>
       THEN <<>>
       ELSE Some(SubSeq(t, r[1][p.gs], r[1][p.ge + 1] - 1))

\* a pattern: its items, and the first and last item of capture group 1
Pattern(items, gs, ge) == [items |-> items, gs |-> gs, ge |-> ge]

Sep == Plus({":"} \cup WhiteSpace)                 \* [:\s]+

\* /LABEL[:\s]+([^\n]+)/i
Labeled(w) == Pattern(Word(w) \o <<Sep, NotPlus({"\n"})>>, Len(w) + 2, Len(w) + 2)


\* /LABEL[:\s]+\$?([0-9,\s]+\.?[0-9]*)/i
LabeledAmountWithSymbol(w) ==
    Pattern(Word(w) \o <<Sep, Opt({"$"}), Plus(Digits \cup {","} \cup WhiteSpace),
                         Opt({"."}), Star(Digits)>>,
            Len(w) + 2, Len(w) + 5)

LabeledAmount(w) ==
    Pattern(Word(w) \o <<Sep, Opt({"$"}), Plus(Digits \cup {","} \cup WhiteSpace),
                         Opt({"."}), Star(Digits)>>,
            Len(w) + 3, Len(w) + 5)

DateSep == One({"-", "/"})                         \* [-\/]

\* /LABEL[:\s]+([0-9]{1,2}[-\/][0-9]{1,2}[-\/][0-9]{2,4})/i
LabeledDate(w) ==
    Pattern(Word(w) \o <<Sep, Rep(Digits, 1, 2), DateSep, Rep(Digits, 1, 2), DateSep,
                         Rep(Digits, 2, 4)>>,
            Len(w) + 2, Len(w) + 6)

fromPatterns ==
    << Labeled(<<"F","R","O","M">>),
       Labeled(<<"S","e","n","d","e","r">>),
       Labeled(<<"P","a","y","e","r">>),
       Labeled(<<"F","r","U+00C3","U+00A5","n">>) >>

toPatterns ==
    << Labeled(<<"T","O">>),
       Labeled(<<"R","e","c","i","p","i","e","n","t">>),
       Labeled(<<"P","a","y","e","e">>),
       Labeled(<<"M","e","r","c","h","a","n","t">>),
       Labeled(<<"T","i","l","l">>),
       Labeled(<<"M","o","t","t","a","g","a","r","e">>) >>

amountPatterns ==
    << LabeledAmount(<<"A","M","O","U","N","T">>),
       LabeledAmount(<<"T","o","t","a","l">>),
       \* /Belopp[:\s]+([0-9,\s]+[.,]?[0-9]*)/i
       Pattern(Word(<<"B","e","l","o","p","p">>)
                 \o <<Sep, Plus(Digits \cup {","} \cup WhiteSpace), Opt({".", ","}),
                      Star(Digits)>>,
               8, 10),
       \* /([0-9\s]+[.,][0-9]{2})\s*kr/i
       Pattern(<<Plus(Digits \cup WhiteSpace), One({".", ","}), Rep(Digits, 2, 2),
                 Star(WhiteSpace), One(Fold("k")), One(Fold("r"))>>,
               1, 3),
       \* /\$?\s*([0-9,\s]+\.[0-9]{2})/
       Pattern(<<Opt({"$"}), Star(WhiteSpace), Plus(Digits \cup {","} \cup WhiteSpace),
                 One({"."}), Rep(Digits, 2, 2)>>,
               3, 5) >>

transactionTypePatterns ==
    << Labeled(<<"T","R","A","N","S","A","C","T","I","O","N"," ","T","Y","P","E">>),
       Labeled(<<"T","y","p","e">>),
       Labeled(<<"P","a","y","m","e","n","t"," ","M","e","t","h","o","d">>),
       Labeled(<<"T","r","a","n","s","a","k","t","i","o","n","s","t","y","p">>),
       Labeled(<<"T","y","p">>) >>

datePatternsAmbiguousFirst ==
    << LabeledDate(<<"D","A","T","E">>),
       LabeledDate(<<"T","r","a","n","s","a","c","t","i","o","n"," ","D","a","t","e">>),
       LabeledDate(<<"D","a","t","u","m">>),
       Pattern(<<Rep(Digits, 1, 2), DateSep, Rep(Digits, 1, 2), DateSep,
                 Rep(Digits, 2, 4)>>, 1, 5),
       Pattern(<<Rep(Digits, 4, 4), DateSep, Rep(Digits, 1, 2), DateSep,
                 Rep(Digits, 1, 2)>>, 1, 5) >>

datePatterns ==
    << LabeledDate(<<"D","A","T","E">>),
       LabeledDate(<<"T","r","a","n","s","a","c","t","i","o","n"," ","D","a","t","e">>),
       LabeledDate(<<"D","a","t","u","m">>),
       \* /([0-9]{4}[-\/][0-9]{1,2}[-\/][0-9]{1,2})/
       Pattern(<<Rep(Digits, 4, 4), DateSep, Rep(Digits, 1, 2), DateSep,
                 Rep(Digits, 1, 2)>>, 1, 5),
       \* /([0-9]{1,2}[-\/][0-9]{1,2}[-\/][0-9]{2,4})/
       Pattern(<<Rep(Digits, 1, 2), DateSep, Rep(Digits, 1, 2), DateSep,
                 Rep(Digits, 2, 4)>>, 1, 5) >>

\* match?.[1]?.trim(): undefined when the pattern does not match
extractField(t, pattern) ==
    LET match == Match(t, pattern)
    IN IF match = <<>> THEN Undefined ELSE Some(Trim(match[1]))

\* JavaScript truthiness of a string | undefined
Truthy(v) == v # Undefined /\ v[1] # <<>>

\* a || b || ... : the first truthy operand, else the last operand
RECURSIVE OrChainNullish(_, _, _)
OrChainNullish(t, patterns, i) ==
    LET v == extractField(t, patterns[i])
    IN IF i = Len(patterns) \/ v # Undefined THEN v
       ELSE OrChainNullish(t, patterns, i + 1)

RECURSIVE OrChain(_, _, _)
OrChain(t, patterns, i) ==
    LET v == extractField(t, patterns[i])
    IN IF i = Len(patterns) \/ Truthy(v) THEN v ELSE OrChain(t, patterns, i + 1)

FieldNames == {"from", "to", "amount", "transactionType", "date"}

PatternsOf(field) ==
    CASE field = "from" -> fromPatterns
      [] field = "to" -> toPatterns
      [] field = "amount" -> amountPatterns
      [] field = "transactionType" -> transactionTypePatterns
      [] field = "date" -> datePatterns

parseBankReceiptText(t) ==
    [field \in FieldNames |-> OrChain(t, PatternsOf(field), 1)]


----------------------------------------------------------------------------
(* Files, errors and results of the OCR pipeline *)

\* const maxSize = 10 * 1024 * 1024
maxSize == 10 * 1024 * 1024

FileTypes == {"application/pdf", "application/x-pdf", "image/png", "text/plain"}
FileSizes == {0, 1, maxSize, maxSize + 1}
Files == [type : FileTypes, size : FileSizes]

\* type.includes(w), for the two words the program asks about
Includes(type, w) ==
    CASE w = "pdf" -> type \in {"application/pdf", "application/x-pdf"}
      [] w = "image" -> type \in {"image/png"}

PDFLoadError(m) == [class |-> "PDFLoadError", message |-> m]
PDFExtractionError(m) == [class |-> "PDFExtractionError", message |-> m]
Error(m) == [class |-> "Error", message |-> m]
\* a thrown value that is no Error object
NonError == [class |-> "NonError", message |-> ""]

\* what a library call may reject with (an Error, its message possibly
\* empty), and what a callback may throw (any value)
LibErrors == {Error("")}
CallbackError == NonError

\* what the recognition engine may resolve with
OcrTexts ==
    { <<>>,
      <<" ", "\n">>,
      <<"F","R","O","M",":"," ","A","\n","1","2",".","5","0">> }

\* parseBankReceiptText on the texts the engine may resolve with
DataOf == [t \in OcrTexts |-> parseBankReceiptText(t)]

Resolved(success, data, rawText, message) ==
    [settled |-> "resolved", success |-> success, data |-> data,
     rawText |-> rawText, error |-> message]

\* the promise rejects with err (no statement of the program does this)
Rejected(err) ==
    [settled |-> "rejected", success |-> FALSE, data |-> Undefined,
     rawText |-> Undefined, error |-> Some(err.message)]

\* the checks at the head of parseBankReceiptPDF: <<>> or <<the error thrown>>
ValidateNoEmptyCheck(f) ==
    IF ~Includes(f.type, "pdf") /\ ~Includes(f.type, "image")
    THEN Some(PDFLoadError("Invalid file type. Please upload a PDF or image file."))
    ELSE IF f.size > maxSize
         THEN Some(PDFLoadError("File size exceeds 10MB limit."))
         ELSE <<>>

Validate(f) ==
    IF ~Includes(f.type, "pdf") /\ ~Includes(f.type, "image")
    THEN Some(PDFLoadError("Invalid file type. Please upload a PDF or image file."))
    ELSE IF f.size > maxSize
         THEN Some(PDFLoadError("File size exceeds 10MB limit."))
         ELSE IF f.size = 0
              THEN Some(PDFLoadError("File is empty."))
              ELSE <<>>

\* the catch block of parseBankReceiptPDF
CatchRethrowUnknown(err) ==
    IF err.class \in {"PDFLoadError", "PDFExtractionError"}
    THEN Resolved(FALSE, Undefined, Undefined, Some(err.message))
    ELSE Rejected(err)

Catch(err) ==
    IF err.class \in {"PDFLoadError", "PDFExtractionError"}
    THEN Resolved(FALSE, Undefined, Undefined, Some(err.message))
    ELSE Resolved(FALSE, Undefined, Undefined,
                  Some("Failed to process file: "
                       \o (IF err.class = "Error" THEN err.message
                                                  ELSE "Unknown error occurred")))

\* extractTextWithOCR: file.type === 'application/pdf'
IsPdf(f) == f.type = "application/pdf"

\* the engine extractTextWithOCR's `worker` names in call c
WorkerShared(w, engs, c) == Len(engs)

WorkerOf(w, engs, c) == w[c]

NewEngine(c) == [owner |-> c, recognizedBy |-> <<>>, terminatedBy |-> <<>>]

\* worker.recognize and worker.terminate invoked by call c on engine id
Recognize(engs, id, c) == [engs EXCEPT ![id].recognizedBy = Append(@, c)]
Terminate(engs, id, c) == [engs EXCEPT ![id].terminatedBy = Append(@, c)]

\* completion of the try block of extractTextWithOCR
Throw(e) == [kind |-> "throw", err |-> Some(e), text |-> Undefined]
Return(t) == [kind |-> "return", err |-> Undefined, text |-> Some(t)]

----------------------------------------------------------------------------
(* Behaviour of the libraries (pdf.js, canvas, tesseract.js) *)

Steps == {"createWorker", "arrayBuffer", "getDocument", "getPage", "getContext",
          "render", "destroy", "recognize"}

\* any behaviour: every library call may succeed or fail
FreeEnv ==
    [free |-> TRUE, file |-> [type |-> "image/png", size |-> 1], failAt |-> "none",
     termFails |-> FALSE, err |-> NonError, text |-> <<>>]

\* one fixed behaviour, the same for every call: the file, the step that
\* fails (if any), whether terminate fails, and the text recognised
FixedEnvs ==
    [free : {FALSE}, file : Files, failAt : Steps \cup {"none"},
     termFails : BOOLEAN, err : LibErrors, text : OcrTexts]

\* the outcomes of library step `step`: <<>> (success) or <<error>>
Outcomes(step) ==
    IF env.free
    THEN {<<>>} \cup {Some(e) : e \in LibErrors}
    ELSE IF step = "terminate"
         THEN (IF env.termFails THEN {Some(env.err)} ELSE {<<>>})
         ELSE (IF env.failAt = step THEN {Some(env.err)} ELSE {<<>>})

\* whether canvas.getContext('2d') returns null
ContextMissing == IF env.free THEN BOOLEAN ELSE {env.failAt = "getContext"}
\* what the engine may recognise in call c: any text for the first call,
\* the receipt text for the calls running beside it
RecognizedTexts(c) ==
    IF ~env.free THEN {env.text}
    ELSE IF c = 1 THEN OcrTexts
    ELSE {t \in OcrTexts : Len(Trim(t)) > 0}
\* the files call c may be given: any file for the first call, a valid PDF
\* or image for the calls running beside it
FileChoices(c) ==
    IF ~env.free THEN {env.file}
    ELSE IF c = 1 THEN Files
    ELSE {f \in Files : f.size = 1 /\ f.type \in {"application/pdf", "image/png"}}
\* whether call c may be given a progress callback
CallbackChoices(c) ==
    IF env.free /\ c # 1 THEN {"omitted"} ELSE {"omitted", "supplied"}
\* under a fixed behaviour a pair of calls is compared
ActiveCalls == IF env.free THEN Calls ELSE Calls \cap {1, 2}


----------------------------------------------------------------------------
(* The OCR pipeline: one action per await of parseBankReceiptPDF,          *)
(* extractTextWithOCR and pdfToImageDataURL. An action is the synchronous  *)
(* code from the await it resumes to the next await or to the return.      *)

Set(f, c, v) == [f EXCEPT ![c] = v]

\* onProgress?.(v): the values reported so far, then v when a callback was given
Report(seq, cbk, v) == IF cbk = "supplied" THEN Append(seq, v) ELSE seq

\* the error err reaches the catch block of parseBankReceiptPDF in call c
ToCatch(c, err) ==
    /\ caught' = Set(caught, c, Some(err))
    /\ result' = Set(result, c, Some(Catch(err)))
    /\ pc' = Set(pc, c, "done")

\* the try block of extractTextWithOCR completed: finally { await worker.terminate() }
Finally(c, completion) ==
    /\ pending' = Set(pending, c, Some(completion))
    /\ engines' = Terminate(engines, WorkerOf(worker, engines, c), c)
    /\ pc' = Set(pc, c, "terminate")

\* parseBankReceiptPDF up to `await extractTextWithOCR`, which calls createWorker
Call(c) ==
    /\ c \in ActiveCalls
    /\ pc[c] = "idle"
    /\ c > 2 => pc[c - 1] # "idle"    \* the calls beside the first start in order
    /\ \E f \in FileChoices(c), cbk \in CallbackChoices(c), cbThrows \in BOOLEAN :
         LET invalid == Validate(f)
             reports == invalid = <<>> /\ cbk = "supplied"
             thrown == IF invalid # <<>> THEN invalid
                       ELSE IF reports /\ cbThrows THEN Some(CallbackError)
                       ELSE <<>>
         IN /\ cbThrows => reports
            /\ file' = Set(file, c, Some(f))
            /\ callback' = Set(callback, c, cbk)
            /\ progress' = Set(progress, c,
                               IF invalid = <<>> THEN Report(<<>>, cbk, 10) ELSE <<>>)
            /\ IF thrown # <<>>
               THEN /\ ToCatch(c, thrown[1])
                    /\ UNCHANGED created
               ELSE /\ pc' = Set(pc, c, "createWorker")
                    /\ created' = Set(created, c, created[c] + 1)
                    /\ UNCHANGED <<result, caught>>
    /\ UNCHANGED <<worker, engines, pdfOpen, pdfLoaded, bytesRead, source, ocrText,
                   pending, env, text, parsed>>
    /\ UNCHANGED appVars

\* `await createWorker('eng')` settles; on success the try block starts:
\* a PDF is read (file.arrayBuffer), anything else goes to worker.recognize
CreateWorkerSettled(c) ==
    /\ pc[c] = "createWorker"
    /\ \E o \in Outcomes("createWorker") :
         /\ IF o # <<>>
            THEN /\ ToCatch(c, o[1])
                 /\ UNCHANGED <<worker, engines, bytesRead, source>>
            ELSE LET id == Len(engines) + 1
                     w2 == Set(worker, c, id)
                     engs2 == Append(engines, NewEngine(c))
                 IN /\ worker' = w2
                    /\ IF IsPdf(file[c][1])
                       THEN /\ engines' = engs2
                            /\ bytesRead' = Set(bytesRead, c, TRUE)
                            /\ pc' = Set(pc, c, "arrayBuffer")
                            /\ UNCHANGED source
                       ELSE /\ engines' = Recognize(engs2, WorkerOf(w2, engs2, c), c)
                            /\ bytesRead' = Set(bytesRead, c, TRUE)
                            /\ source' = Set(source, c, "file")
                            /\ pc' = Set(pc, c, "recognize")
                    /\ UNCHANGED <<result, caught>>
    /\ UNCHANGED <<file, callback, created, pdfOpen, pdfLoaded, ocrText, pending,
                   progress, env, text, parsed>>
    /\ UNCHANGED appVars

\* `await file.arrayBuffer()` settles; then pdfjsLib.getDocument is called
ArrayBufferSettled(c) ==
    /\ pc[c] = "arrayBuffer"
    /\ \E o \in Outcomes("arrayBuffer") :
         /\ IF o # <<>>
            THEN Finally(c, Throw(o[1]))
            ELSE /\ pc' = Set(pc, c, "getDocument")
                 /\ UNCHANGED <<pending, engines>>
    /\ UNCHANGED <<file, callback, worker, created, pdfOpen, pdfLoaded, bytesRead,
                   source, ocrText, progress, result, caught, env, text, parsed>>
    /\ UNCHANGED appVars

\* `await loadingTask.promise` settles; then pdf.getPage(1) is called
GetDocumentSettled(c) ==
    /\ pc[c] = "getDocument"
    /\ \E o \in Outcomes("getDocument") :
         /\ IF o # <<>>
            THEN /\ Finally(c, Throw(o[1]))
                 /\ UNCHANGED <<pdfOpen, pdfLoaded>>
            ELSE /\ pdfOpen' = Set(pdfOpen, c, TRUE)
                 /\ pdfLoaded' = Set(pdfLoaded, c, TRUE)
                 /\ pc' = Set(pc, c, "getPage")
                 /\ UNCHANGED <<pending, engines>>
    /\ UNCHANGED <<file, callback, worker, created, bytesRead, source, ocrText,
                   progress, result, caught, env, text, parsed>>
    /\ UNCHANGED appVars

\* `await pdf.getPage(1)` settles; then the canvas and its 2d context are
\* made (`throw new Error('Failed to get canvas context')` when there is
\* none) and page.render is called
GetPageSettled(c) ==
    /\ pc[c] = "getPage"
    /\ \E o \in Outcomes("getPage"), noContext \in ContextMissing :
         IF o # <<>>
         THEN Finally(c, Throw(o[1]))
         ELSE IF noContext
              THEN Finally(c, Throw(Error("Failed to get canvas context")))
              ELSE /\ pc' = Set(pc, c, "render")
                   /\ UNCHANGED <<pending, engines>>
    /\ UNCHANGED <<file, callback, worker, created, pdfOpen, pdfLoaded, bytesRead,
                   source, ocrText, progress, result, caught, env, text, parsed>>
    /\ UNCHANGED appVars

\* `await page.render(...).promise` settles; then pdf.destroy() is called
RenderSettled(c) ==
    /\ pc[c] = "render"
    /\ \E o \in Outcomes("render") :
         /\ IF o # <<>>
            THEN Finally(c, Throw(o[1]))
            ELSE /\ pc' = Set(pc, c, "destroy")
                 /\ UNCHANGED <<pending, engines>>
    /\ UNCHANGED <<file, callback, worker, created, pdfOpen, pdfLoaded, bytesRead,
                   source, ocrText, progress, result, caught, env, text, parsed>>
    /\ UNCHANGED appVars

\* `await pdf.destroy()` settles; then the canvas becomes a data URL, which
\* goes to worker.recognize. Whether a destroy that failed released the
\* document is not known.
DestroySettled(c) ==
    /\ pc[c] = "destroy"
    /\ \E o \in Outcomes("destroy"), stillOpen \in BOOLEAN :
         /\ IF o # <<>>
            THEN /\ pdfOpen' = Set(pdfOpen, c, stillOpen)
                 /\ Finally(c, Throw(o[1]))
                 /\ UNCHANGED source
            ELSE /\ pdfOpen' = Set(pdfOpen, c, FALSE)
                 /\ engines' = Recognize(engines, WorkerOf(worker, engines, c), c)
                 /\ source' = Set(source, c, "bitmap")
                 /\ pc' = Set(pc, c, "recognize")
                 /\ UNCHANGED pending
    /\ UNCHANGED <<file, callback, worker, created, pdfLoaded, bytesRead, ocrText,
                   progress, result, caught, env, text, parsed>>
    /\ UNCHANGED appVars

\* `await worker.recognize(imageSource)` settles: `return text` or the
\* rejection leaves the try block, and finally calls worker.terminate()
RecognizeSettled(c) ==
    /\ pc[c] = "recognize"
    /\ \E o \in Outcomes("recognize"), t \in RecognizedTexts(c) :
         /\ IF o # <<>>
            THEN /\ Finally(c, Throw(o[1]))
                 /\ UNCHANGED ocrText
            ELSE /\ ocrText' = Set(ocrText, c, Some(t))
                 /\ Finally(c, Return(t))
    /\ UNCHANGED <<file, callback, worker, created, pdfOpen, pdfLoaded, bytesRead,
                   source, progress, result, caught, env, text, parsed>>
    /\ UNCHANGED appVars


\* parseBankReceiptPDF after `await extractTextWithOCR` returned t:
\* onProgress?.(90), the blank-text check, parseBankReceiptText,
\* onProgress?.(100). throws90 and throws100 say whether the callback throws.
\* Yields what was reported, what was thrown (if anything) and the data.
AfterRecognitionNoBlankCheck(t, cbk, throws90, throws100) ==
    IF cbk = "supplied" /\ throws90
    THEN [reports |-> <<90>>, thrown |-> Some(CallbackError), data |-> Undefined]
    ELSE IF cbk = "supplied" /\ throws100
    THEN [reports |-> <<90, 100>>, thrown |-> Some(CallbackError), data |-> Undefined]
    ELSE [reports |-> Report(Report(<<>>, cbk, 90), cbk, 100), thrown |-> <<>>,
          data |-> Some(DataOf[t])]

AfterRecognitionEarly100(t, cbk, throws90, throws100) ==
    IF cbk = "supplied" /\ throws90
    THEN [reports |-> <<90>>, thrown |-> Some(CallbackError), data |-> Undefined]
    ELSE IF cbk = "supplied" /\ throws100
    THEN [reports |-> <<90, 100>>, thrown |-> Some(CallbackError), data |-> Undefined]
    ELSE IF Len(Trim(t)) = 0
    THEN [reports |-> Report(Report(<<>>, cbk, 90), cbk, 100),
          thrown |-> Some(PDFExtractionError(
              "No text content found. The image might be too blurry or low quality.")),
          data |-> Undefined]
    ELSE [reports |-> Report(Report(<<>>, cbk, 90), cbk, 100), thrown |-> <<>>,
          data |-> Some(DataOf[t])]

AfterRecognition(t, cbk, throws90, throws100) ==
    IF cbk = "supplied" /\ throws90
    THEN [reports |-> <<90>>, thrown |-> Some(CallbackError), data |-> Undefined]
    ELSE IF Len(Trim(t)) = 0
    THEN [reports |-> Report(<<>>, cbk, 90),
          thrown |-> Some(PDFExtractionError(
              "No text content found. The image might be too blurry or low quality.")),
          data |-> Undefined]
    ELSE IF cbk = "supplied" /\ throws100
    THEN [reports |-> <<90, 100>>, thrown |-> Some(CallbackError), data |-> Undefined]
    ELSE [reports |-> Report(Report(<<>>, cbk, 90), cbk, 100), thrown |-> <<>>,
          data |-> Some(DataOf[t])]

\* `await worker.terminate()` settles: its rejection replaces the try
\* block's completion; else the completion takes effect, and a returned
\* text resumes parseBankReceiptPDF up to its return
TerminateSettled(c) ==
    /\ pc[c] = "terminate"
    /\ \E o \in Outcomes("terminate"), throws90 \in BOOLEAN, throws100 \in BOOLEAN :
         LET completion == pending[c][1]
             after == AfterRecognition(completion.text[1], callback[c],
                                       throws90, throws100)
         IN /\ (throws90 \/ throws100) =>
                   (callback[c] = "supplied" /\ o = <<>> /\ completion.kind = "return")
            /\ IF o # <<>>
               THEN /\ ToCatch(c, o[1])
                    /\ UNCHANGED progress
               ELSE IF completion.kind = "throw"
               THEN /\ ToCatch(c, completion.err[1])
                    /\ UNCHANGED progress
               ELSE /\ progress' = Set(progress, c, progress[c] \o after.reports)
                    /\ IF after.thrown # <<>>
                       THEN ToCatch(c, after.thrown[1])
                       ELSE /\ result' = Set(result, c,
                                   Some(Resolved(TRUE, after.data,
                                                 Some(completion.text[1]), Undefined)))
                            /\ pc' = Set(pc, c, "done")
                            /\ UNCHANGED caught
    /\ UNCHANGED <<file, callback, worker, engines, created, pdfOpen, pdfLoaded,
                   bytesRead, source, ocrText, pending, env, text, parsed>>
    /\ UNCHANGED appVars

----------------------------------------------------------------------------
(* The field extractor applied to generated transcriptions *)

\* what a generated transcription is made of: labels, values, a line end
Fragments ==
    { <<"F","R","O","M",":"," ">>, <<"S","e","n","d","e","r",":"," ">>,
      <<"P","a","y","e","r",":"," ">>, <<"T","O",":"," ">>,
      <<"T","o","t","a","l",":"," ">>, <<"T","y","p",":"," ">>,
      <<"B","o","b">>, <<"1","2",".","5","0">>, <<"3","/","4","/","2","5">>,
      <<"\n">> }

\* the transcription made of the fragments frs
RECURSIVE Transcription(_)
Transcription(frs) ==
    IF frs = <<>> THEN <<>> ELSE Head(frs) \o Transcription(Tail(frs))

\* the transcription grows by one fragment; it has not been extracted from
AddFragment ==
    /\ Len(text) < MaxFrags
    /\ \E f \in Fragments : text' = Append(text, f)
    /\ parsed' = <<>>
    /\ UNCHANGED pipelineVars
    /\ UNCHANGED appVars

\* parseBankReceiptText(text)
Extract ==
    /\ parsed = <<>>
    /\ parsed' = Some([of |-> Transcription(text),
                       data |-> parseBankReceiptText(Transcription(text))])
    /\ UNCHANGED text
    /\ UNCHANGED pipelineVars
    /\ UNCHANGED appVars

----------------------------------------------------------------------------
(* The field extractor applied to receipts made of whole lines *)

\* the lines a generated receipt is made of: the lines of two sample
\* receipts, an English and a Swedish one, and lines with other dates
Lines ==
    { <<"F","R","O","M",":"," ","A","l","i","c","e"," ","C","o","r","p","\n",
        "T","O",":"," ","B","o","b"," ","L","L","C">>,
      <<"A","M","O","U","N","T",":"," ","$","4","2",".","5","0","\n",
        "D","A","T","E",":"," ","2","0","2","5","-","0","3","-","1","4">>,
      <<"F","r","U+00E5","n",":"," ","H","a","n","d","l","a","r","e","n"," ","A","B">>,
      <<"B","e","l","o","p","p",":"," ","1","2","3",",","4","5"," ","k","r">>,
      <<"2","0","2","4","-","0","1","-","0","2">>,
      <<"D","a","t","u","m",":"," ","3","/","4","/","2","5">>,
      <<"P","a","i","d"," ","5","-","6","-","2","4">>,
      <<"R","e","f"," ","2","0","2","3","/","1","/","5"," ","o","k">> }

\* the receipt grows by one line it does not have yet, after a line end
AddLine ==
    /\ Len(text) < MaxLines
    /\ \E l \in Lines :
         /\ \A i \in DOMAIN text : text[i] # l /\ text[i] # <<"\n">> \o l
         /\ text' = Append(text, IF text = <<>> THEN l ELSE <<"\n">> \o l)
    /\ parsed' = <<>>
    /\ UNCHANGED pipelineVars
    /\ UNCHANGED appVars

----------------------------------------------------------------------------
(* parseDate of utils/dateHelpers, applied to generated date strings *)

\* the end of the input, where a pattern anchored with $ must arrive
EndOfInput == "END"

\* /^(\d{1,2})[-\/](\d{1,2})[-\/](\d{2,4})$/  MM/DD/YYYY or MM-DD-YYYY
\* /^(\d{4})[-\/](\d{1,2})[-\/](\d{1,2})$/    YYYY-MM-DD
formats ==
    << <<Rep(Digits, 1, 2), DateSep, Rep(Digits, 1, 2), DateSep, Rep(Digits, 2, 4),
         One({EndOfInput})>>,
       <<Rep(Digits, 4, 4), DateSep, Rep(Digits, 1, 2), DateSep, Rep(Digits, 1, 2),
         One({EndOfInput})>> >>

\* dateString.match(format), the format anchored at both ends: <<>> (null)
\* or <<the three capture groups>>
MatchAnchored(s, items) ==
    LET r == MatchAt(Append(s, EndOfInput), items, 1, 1)
    IN IF r = <<>>
       THEN <<>>
       ELSE Some(<< SubSeq(s, r[1][1], r[1][2] - 1),
                    SubSeq(s, r[1][3], r[1][4] - 1),
                    SubSeq(s, r[1][5], r[1][6] - 1) >>)

DigitChars == <<"0","1","2","3","4","5","6","7","8","9">>

\* parseInt(s, 10) of a string of digits
RECURSIVE parseInt(_)
parseInt(s) ==
    IF s = <<>>
    THEN 0
    ELSE parseInt(SubSeq(s, 1, Len(s) - 1)) * 10
           + (CHOOSE i \in 1..10 : DigitChars[i] = s[Len(s)]) - 1

IsLeapYear(y) == (y % 4 = 0 /\ y % 100 # 0) \/ y % 400 = 0

\* the length of month m (0 = January) of year y
DaysInMonth(y, m) ==
    IF m = 1 THEN (IF IsLeapYear(y) THEN 29 ELSE 28)
    ELSE IF m \in {3, 5, 8, 10} THEN 30 ELSE 31

\* the calendar date that is day d of month m (0 = January) of year y,
\* a day before or after the month being counted into the months around it
RECURSIVE MakeDay(_, _, _)
MakeDay(y, m, d) ==
    IF d < 1
    THEN LET py == IF m = 0 THEN y - 1 ELSE y
             pm == IF m = 0 THEN 11 ELSE m - 1
         IN MakeDay(py, pm, d + DaysInMonth(py, pm))
    ELSE IF d > DaysInMonth(y, m)
    THEN MakeDay(IF m = 11 THEN y + 1 ELSE y, IF m = 11 THEN 0 ELSE m + 1,
                 d - DaysInMonth(y, m))
    ELSE [year |-> y, month |-> m + 1, day |-> d]

\* new Date(year, monthIndex, day): a year 0..99 means 1900 + year, and
\* a month or day out of range carries over
NewDate(year, monthIndex, day) ==
    LET full == IF year >= 0 /\ year <= 99 THEN 1900 + year ELSE year
        months == full * 12 + monthIndex
    IN MakeDay(months \div 12, months % 12, day)

InvalidDate == [year |-> 0, month |-> 0, day |-> 0]

\* isValid of date-fns: the date is not Invalid Date
isValid(date) == date # InvalidDate

\* parseISO of date-fns on the strings that reach it here: they do not
\* match the second format, so they are no ISO 8601 calendar date
parseISO(s) == InvalidDate

Null == <<>>

\* parseDate: null or <<the Date>>
parseDate(dateString) ==
    LET m0 == MatchAnchored(dateString, formats[1])
        m1 == MatchAnchored(dateString, formats[2])
        y0 == parseInt(m0[1][3])
        d0 == NewDate(IF y0 < 100 THEN y0 + (IF y0 < 50 THEN 2000 ELSE 1900) ELSE y0,
                      parseInt(m0[1][1]) - 1, parseInt(m0[1][2]))
        d1 == NewDate(parseInt(m1[1][1]), parseInt(m1[1][2]) - 1, parseInt(m1[1][3]))
        isoDate == parseISO(dateString)
    IN IF m0 # <<>> /\ isValid(d0) THEN Some(d0)
       ELSE IF m1 # <<>> /\ isValid(d1) THEN Some(d1)
       ELSE IF isValid(isoDate) THEN Some(isoDate)
       ELSE Null

\* the numbers a generated date string is made of
DateNumbers ==
    { <<"0">>, <<"3">>, <<"0","3">>, <<"1","4">>, <<"2","9">>, <<"3","1">>,
      <<"4","9">>, <<"5","0">>, <<"1","2","3">>, <<"2","0","2","4">>,
      <<"2","0","2","5">> }

\* a date string is given: three numbers with separators between them
ChooseDateString ==
    /\ text = <<>>
    /\ parsed = <<>>
    /\ \E a \in DateNumbers, b \in DateNumbers, c \in DateNumbers :
         \E s1 \in {<<"-">>, <<"/">>}, s2 \in {<<"-">>, <<"/">>} :
             text' = <<a, s1, b, s2, c>>
    /\ UNCHANGED parsed
    /\ UNCHANGED pipelineVars
    /\ UNCHANGED appVars

\* parseDate(the date string)
ParseDate ==
    /\ parsed = <<>>
    /\ parsed' = Some([of |-> Transcription(text),
                       date |-> parseDate(Transcription(text))])
    /\ UNCHANGED text
    /\ UNCHANGED pipelineVars
    /\ UNCHANGED appVars

----------------------------------------------------------------------------
(* services/database: the expenses object store and its queries.           *)
(* A Date is the number of its day, 1 being 1 January of the year of       *)
(* `now`; an expense is its id, amount, category and date (the fields the  *)
(* queries read); an ExpenseFilter is a function from the keys it has to   *)
(* <<>> (undefined) or <<value>>.                                          *)

\* const now = new Date(): 12 March 2025, a Wednesday
ThisYear == 2025
Today == 31 + 28 + 12

Dates == {31 + 9, 31 + 28 + 3, Today}
Amounts == {1, 2}
CategoryNames == {"Food & Dining", "Other"}

\* what addExpense may be given (Omit<Expense, 'id' | 'createdAt'>)
NewExpenses == [amount : Amounts, category : CategoryNames, date : Dates]

\* what updateExpense may be given
Updates == {[category |-> c] : c \in CategoryNames} \cup {[date |-> d] : d \in Dates}

\* filter.key: undefined when the filter has no such key
Get(filter, key) == IF key \in DOMAIN filter THEN filter[key] ELSE Undefined

\* the filters a query may be given: each key with a value or undefined
Filters ==
    [ category : {Undefined} \cup {Some(c) : c \in CategoryNames \cup {""}},
      startDate : {Undefined} \cup {Some(d) : d \in Dates},
      endDate : {Undefined} \cup {Some(d) : d \in Dates},
      minAmount : {Undefined, Some(2)},
      maxAmount : {Undefined, Some(1)} ]

\* the outcome of an awaited call: the value resolved or the error rejected with
Ok(data) == [ok |-> TRUE, data |-> data, error |-> ""]
Failed(message) == [ok |-> FALSE, data |-> <<>>, error |-> message]

\* tx.store.add(expense): the key generator gives the next id
StoreAdd(st, e) ==
    Append(st, Some([id |-> Len(st) + 1, amount |-> e.amount,
                     category |-> e.category, date |-> e.date]))

\* tx.store.put({...existing, ...updates}), when the record exists
StoreUpdate(st, id, updates) ==
    [st EXCEPT ![id] =
        Some([k \in DOMAIN st[id][1] |->
                 IF k \in DOMAIN updates THEN updates[k] ELSE st[id][1][k]])]

\* tx.store.delete(id)
StoreDelete(st, id) == IF id \in DOMAIN st THEN [st EXCEPT ![id] = <<>>] ELSE st

\* db.getAll('expenses'): the records in the order of their ids
getAllExpenses(st) ==
    LET present == SelectSeq(st, LAMBDA r : r # <<>>)
    IN [i \in 1..Len(present) |-> present[i][1]]

\* index.getAll(category) of 'by-category': the records of the category,
\* in the order of their ids
getExpensesByCategory(st, category) ==
    SelectSeq(getAllExpenses(st), LAMBDA e : e.category = category)

\* x put into the sorted sequence after the elements that do not come
\* after it (sign 1: earliest first, sign -1: latest first)
RECURSIVE InsertByDate(_, _, _)
InsertByDate(sorted, x, sign) ==
    IF sorted = <<>> THEN <<x>>
    ELSE IF sign * Head(sorted).date <= sign * x.date
         THEN <<Head(sorted)>> \o InsertByDate(Tail(sorted), x, sign)
         ELSE <<x>> \o sorted

\* a stable sort by date
RECURSIVE SortByDate(_, _)
SortByDate(seq, sign) ==
    IF seq = <<>> THEN <<>>
    ELSE InsertByDate(SortByDate(SubSeq(seq, 1, Len(seq) - 1), sign), seq[Len(seq)], sign)

\* IDBKeyRange.bound(startDate, endDate) throws a DataError when the lower
\* bound is greater than the upper; else index.getAll(range) of 'by-date':
\* the records within the bounds, in the order of date, then id
getExpensesByDateRange(st, startDate, endDate) ==
    IF startDate > endDate
    THEN Failed("DataError")
    ELSE Ok(SortByDate(SelectSeq(getAllExpenses(st),
                                 LAMBDA e : startDate <= e.date /\ e.date <= endDate), 1))

\* the callback of expenses.filter in getFilteredExpenses
Keep(filter, expense) ==
    LET category == Get(filter, "category")
        startDate == Get(filter, "startDate")
        endDate == Get(filter, "endDate")
        minAmount == Get(filter, "minAmount")
        maxAmount == Get(filter, "maxAmount")
    IN ~ \/ (category # Undefined /\ category[1] # "" /\ expense.category # category[1])
         \/ (startDate # Undefined /\ expense.date < startDate[1])
         \/ (endDate # Undefined /\ expense.date > endDate[1])
         \/ (minAmount # Undefined /\ expense.amount < minAmount[1])
         \/ (maxAmount # Undefined /\ expense.amount > maxAmount[1])

\* the records getFilteredExpenses starts from: the date index when both
\* dates are given, else the category index when a category is, else all
StartingFrom(st, filter) ==
    LET category == Get(filter, "category")
        startDate == Get(filter, "startDate")
        endDate == Get(filter, "endDate")
    IN IF startDate # Undefined /\ endDate # Undefined
       THEN getExpensesByDateRange(st, startDate[1], endDate[1])
       ELSE IF category # Undefined /\ category[1] # ""
            THEN Ok(getExpensesByCategory(st, category[1]))
            ELSE Ok(getAllExpenses(st))

getFilteredExpensesUnrefined(st, filter) == StartingFrom(st, filter)

getFilteredExpenses(st, filter) ==
    LET from == StartingFrom(st, filter)
    IN IF ~from.ok THEN from
       ELSE Ok(SelectSeq(from.data, LAMBDA e : Keep(filter, e)))

\* db.addExpense(expense)
DbAddExpense ==
    /\ Len(store) < MaxExpenses
    /\ \E e \in NewExpenses : store' = StoreAdd(store, e)
    /\ queried' = <<>>
    /\ UNCHANGED <<hookVars, pageVars, pipelineVars, parseVars, dbVars>>

\* db.updateExpense(id, updates): throws when there is no such record
DbUpdateExpense ==
    /\ \E id \in DOMAIN store, updates \in Updates :
         /\ store[id] # <<>>
         /\ store' = StoreUpdate(store, id, updates)
    /\ queried' = <<>>
    /\ UNCHANGED <<hookVars, pageVars, pipelineVars, parseVars, dbVars>>

\* db.deleteExpense(id)
DbDeleteExpense ==
    /\ \E id \in DOMAIN store : store' = StoreDelete(store, id)
    /\ queried' = <<>>
    /\ UNCHANGED <<hookVars, pageVars, pipelineVars, parseVars, dbVars>>

\* db.getFilteredExpenses(filter)
DbGetFilteredExpenses ==
    /\ queried = <<>>
    /\ \E filter \in Filters :
         queried' = Some([filter |-> filter,
                          outcome |-> getFilteredExpenses(store, filter)])
    /\ UNCHANGED <<store, hookVars, pageVars, pipelineVars, parseVars, dbVars>>

----------------------------------------------------------------------------
(* getDatabase: openDB resolves each time with a new connection, numbered
   from 1 in the order of the calls *)

Getters == 1..NumGetters

\* getDatabase() up to its first await: the instance when there is one,
\* else openDB is called
GetDatabase(g) ==
    /\ getters[g].pc \in {"idle", "returned"}
    /\ IF dbInstance # 0
       THEN /\ getters' = [getters EXCEPT ![g] =
                              [pc |-> "returned", connection |-> 0, got |-> dbInstance]]
            /\ UNCHANGED opened
       ELSE /\ opened' = opened + 1
            /\ getters' = [getters EXCEPT ![g] =
                              [pc |-> "opening", connection |-> opened + 1, got |-> 0]]
    /\ UNCHANGED <<dbInstance, store, queried, hookVars, pageVars, pipelineVars, parseVars>>

\* openDB settles: dbInstance = await openDB(...), then
\* initializeDefaultCategories(dbInstance) is awaited
OpenSettled(g) ==
    /\ getters[g].pc = "opening"
    /\ dbInstance' = getters[g].connection
    /\ getters' = [getters EXCEPT ![g].pc = "initializing"]
    /\ UNCHANGED <<opened, store, queried, hookVars, pageVars, pipelineVars, parseVars>>

\* initializeDefaultCategories settles: return dbInstance
InitializeSettled(g) ==
    /\ getters[g].pc = "initializing"
    /\ getters' = [getters EXCEPT ![g].pc = "returned", ![g].got = dbInstance]
    /\ UNCHANGED <<dbInstance, opened, store, queried, hookVars, pageVars,
                   pipelineVars, parseVars>>

----------------------------------------------------------------------------
(* getDateRangeForPeriod: dates are the days of ThisYear, 1 for 1 January *)

TimePeriods == {"week", "month", "year"}

\* the days of ThisYear before month m (0-based)
RECURSIVE DaysBefore(_)
DaysBefore(m) == IF m = 0 THEN 0 ELSE DaysBefore(m - 1) + DaysInMonth(ThisYear, m - 1)

MonthOfDay(d) ==
    CHOOSE m \in 0..11 : DaysBefore(m) < d /\ d <= DaysBefore(m) + DaysInMonth(ThisYear, m)

\* 1 January of ThisYear is a Wednesday; 0 is Sunday
DayOfWeek(d) == (d + 2) % 7

\* date-fns: weeks start on Sunday
startOfWeek(d) == d - DayOfWeek(d)
endOfWeek(d) == startOfWeek(d) + 6
startOfMonth(d) == DaysBefore(MonthOfDay(d)) + 1
endOfMonth(d) == DaysBefore(MonthOfDay(d)) + DaysInMonth(ThisYear, MonthOfDay(d))
startOfYear(d) == DaysBefore(0) + 1
endOfYear(d) == DaysBefore(12)

getDateRangeForPeriod(period) ==
    IF period = "week"
    THEN [startDate |-> startOfWeek(Today), endDate |-> endOfWeek(Today)]
    ELSE IF period = "year"
         THEN [startDate |-> startOfYear(Today), endDate |-> endOfYear(Today)]
         ELSE [startDate |-> startOfMonth(Today), endDate |-> endOfMonth(Today)]

----------------------------------------------------------------------------
(* useExpenses *)

\* an ExpenseFilter object: keys is the set of its own keys (a key may be
\* present with the value undefined), the other fields their values
EmptyFilter ==
    [keys |-> {}, category |-> Undefined, startDate |-> Undefined,
     endDate |-> Undefined, minAmount |-> Undefined, maxAmount |-> Undefined]

\* {...filter, key: value}
With(filter, key, value) ==
    [filter EXCEPT ![key] = value, !.keys = @ \cup {key}]

ElementsOf(seq) == {seq[i] : i \in DOMAIN seq}

\* the sequence without its i-th element
RemoveAt(seq, i) == SubSeq(seq, 1, i - 1) \o SubSeq(seq, i + 1, Len(seq))

\* the awaited read of loadExpenses: getFilteredExpenses when the filter has
\* a key, else getAllExpenses
Query(st, filterToUse) ==
    IF filterToUse.keys # {}
    THEN getFilteredExpenses(st, filterToUse)
    ELSE Ok(getAllExpenses(st))

\* expenseData.sort((a, b) => dateB - dateA): stable, newest first
SortNewestFirst(expenseData) == SortByDate(expenseData, -1)

\* loadExpenses(filter) up to its await: setLoading(true), setError(null),
\* and the read is in flight
StartLoad(filterToUse) ==
    /\ loading' = TRUE
    /\ error' = Null
    /\ ops' = Append(ops, [kind |-> "load", filter |-> filterToUse])

\* the effect of useExpenses on mount: loadExpenses() and loadCategories()
Mounted ==
    /\ currentFilterRef = EmptyFilter
    /\ expenses = <<>>
    /\ categories = <<>>
    /\ loading = TRUE
    /\ error = Null
    /\ ops = << [kind |-> "load", filter |-> EmptyFilter], [kind |-> "categories"] >>

\* the filters filterExpenses is called with
GivenFilters ==
    { With(EmptyFilter, "minAmount", Some(2)),
      With(With(EmptyFilter, "startDate", Some(Today)), "endDate", Some(startOfMonth(Today))) }

\* the expenses addExpense is called with
GivenExpenses ==
    { [amount |-> 1, category |-> "Food & Dining", date |-> startOfMonth(Today) + 2],
      [amount |-> 2, category |-> "Other", date |-> Today] }

\* the updates updateExpense is called with
GivenUpdates == { [date |-> startOfMonth(Today) - 20] }

FilterExpenses ==
    /\ Len(ops) < NumOps
    /\ \E filter \in GivenFilters :
         /\ currentFilterRef' = filter
         /\ StartLoad(filter)
    /\ UNCHANGED <<expenses, categories, storeVars, pageVars, pipelineVars, parseVars, dbVars>>

\* filterByPeriod(period) up to the await in loadExpenses
StartFilterByPeriod(period) ==
    LET range == getDateRangeForPeriod(period)
        filter == With(With(currentFilterRef, "startDate", Some(range.startDate)),
                       "endDate", Some(range.endDate))
    IN /\ currentFilterRef' = filter
       /\ StartLoad(filter)

\* filterByCategory(category) up to the await in loadExpenses
StartFilterByCategory(category) ==
    LET filter == With(currentFilterRef, "category",
                       IF category = "all" THEN Undefined ELSE Some(category))
    IN /\ currentFilterRef' = filter
       /\ StartLoad(filter)

FilterByPeriod ==
    /\ Len(ops) < NumOps
    /\ \E period \in TimePeriods : StartFilterByPeriod(period)
    /\ UNCHANGED <<expenses, categories, storeVars, pageVars, pipelineVars, parseVars, dbVars>>

FilterByCategory ==
    /\ Len(ops) < NumOps
    /\ \E category \in {"all"} \cup CategoryNames : StartFilterByCategory(category)
    /\ UNCHANGED <<expenses, categories, storeVars, pageVars, pipelineVars, parseVars, dbVars>>

ClearFilters ==
    /\ Len(ops) < NumOps
    /\ currentFilterRef' = EmptyFilter
    /\ StartLoad(EmptyFilter)
    /\ UNCHANGED <<expenses, categories, storeVars, pageVars, pipelineVars, parseVars, dbVars>>

\* addExpense(expense) up to its first await
StartAddExpense(expense) ==
    ops' = Append(ops, [kind |-> "add", expense |-> expense])

\* the additions in flight
Adding == {i \in DOMAIN ops : ops[i].kind = "add"}

AddExpense ==
    /\ Len(ops) < NumOps
    /\ Len(store) + Cardinality(Adding) < MaxExpenses
    /\ \E expense \in GivenExpenses : StartAddExpense(expense)
    /\ UNCHANGED <<currentFilterRef, expenses, categories, loading, error,
                   storeVars, pageVars, pipelineVars, parseVars, dbVars>>

UpdateExpense ==
    /\ Len(ops) < NumOps
    /\ \E id \in DOMAIN store, updates \in GivenUpdates :
         ops' = Append(ops, [kind |-> "update", id |-> id, updates |-> updates])
    /\ UNCHANGED <<currentFilterRef, expenses, categories, loading, error,
                   storeVars, pageVars, pipelineVars, parseVars, dbVars>>

DeleteExpense ==
    /\ Len(ops) < NumOps
    /\ \E id \in DOMAIN store :
         ops' = Append(ops, [kind |-> "delete", id |-> id])
    /\ UNCHANGED <<currentFilterRef, expenses, categories, loading, error,
                   storeVars, pageVars, pipelineVars, parseVars, dbVars>>

\* the write of the i-th operation in flight settles, and the operation goes
\* on to loadExpenses() with the filter currentFilterRef then holds; an
\* update of a record that is not there rejects, and error is set
WriteSettled(i) ==
    LET op == ops[i]
        rest == RemoveAt(ops, i)
        rejected ==
            op.kind = "update" /\ (op.id \notin DOMAIN store \/ store[op.id] = <<>>)
    IN /\ op.kind \in {"add", "update", "delete"}
       /\ IF rejected
          THEN /\ error' = Some("Expense not found")
               /\ ops' = rest
               /\ UNCHANGED <<store, loading>>
          ELSE /\ store' = IF op.kind = "add" THEN StoreAdd(store, op.expense)
                           ELSE IF op.kind = "update"
                                THEN StoreUpdate(store, op.id, op.updates)
                                ELSE StoreDelete(store, op.id)
               /\ loading' = TRUE
               /\ error' = Null
               /\ ops' = Append(rest, [kind |-> "load", filter |-> currentFilterRef])
       /\ UNCHANGED <<queried, currentFilterRef, expenses, categories,
                      pageVars, pipelineVars, parseVars, dbVars>>

\* the read of the i-th operation in flight settles and loadExpenses goes on
\* to its end: the data sorted and set, or the error set, and loading false
LoadSettled(i) ==
    LET op == ops[i]
        expenseData == Query(store, op.filter)
    IN /\ op.kind = "load"
       /\ IF expenseData.ok
          THEN /\ expenses' = SortNewestFirst(expenseData.data)
               /\ UNCHANGED error
          ELSE /\ error' = Some(expenseData.error)
               /\ UNCHANGED expenses
       /\ loading' = FALSE
       /\ ops' = RemoveAt(ops, i)
       /\ UNCHANGED <<currentFilterRef, categories, storeVars, pageVars,
                      pipelineVars, parseVars, dbVars>>

\* db.getAllCategories() settles: the default categories
LoadCategoriesSettled(i) ==
    /\ ops[i].kind = "categories"
    /\ categories' = <<"Food & Dining", "Other">>
    /\ ops' = RemoveAt(ops, i)
    /\ UNCHANGED <<currentFilterRef, expenses, loading, error, storeVars, pageVars,
                   pipelineVars, parseVars, dbVars>>

----------------------------------------------------------------------------
(* Root, HomePage and ExpensesPage *)

Tabs == {"home", "expenses"}

\* the state after the effects of the first render: loadExpenses() and
\* loadCategories() of useExpenses, then filterByPeriod('month') of Root
RootMounted ==
    LET range == getDateRangeForPeriod("month")
        filter == With(With(EmptyFilter, "startDate", Some(range.startDate)),
                       "endDate", Some(range.endDate))
    IN /\ currentFilterRef = filter
       /\ expenses = <<>>
       /\ categories = <<>>
       /\ loading = TRUE
       /\ error = Null
       /\ ops = << [kind |-> "load", filter |-> EmptyFilter], [kind |-> "categories"],
                   [kind |-> "load", filter |-> filter] >>

\* a tab of the Tabbar is clicked: the page of the other tab is mounted
\* anew, with the initial values of its state, and the effect on activeTab
\* calls filterByPeriod('month') when the tab is home
SelectTab ==
    \E tab \in Tabs :
        /\ tab # activeTab
        /\ activeTab' = tab
        /\ selectedPeriod' = "month"
        /\ selectedCategory' = "all"
        /\ IF tab = "home"
           THEN /\ Len(ops) < NumOps
                /\ StartFilterByPeriod("month")
           ELSE UNCHANGED <<currentFilterRef, loading, error, ops>>
        /\ UNCHANGED <<expenses, categories, storeVars, pipelineVars, parseVars, dbVars>>

\* a segment of the PeriodFilter of HomePage is clicked: setSelectedPeriod
SelectPeriod ==
    /\ activeTab = "home"
    /\ \E period \in TimePeriods : selectedPeriod' = period
    /\ UNCHANGED <<activeTab, selectedCategory, hookVars, storeVars, pipelineVars, parseVars, dbVars>>

\* a chip of the CategoryFilter of ExpensesPage is clicked:
\* handleCategoryChange
SelectCategory ==
    /\ activeTab = "expenses"
    /\ Len(ops) < NumOps
    /\ \E category \in {"all"} \cup ElementsOf(categories) :
         /\ selectedCategory' = category
         /\ StartFilterByCategory(category)
    /\ UNCHANGED <<activeTab, selectedPeriod, expenses, categories,
                   storeVars, pipelineVars, parseVars, dbVars>>

\* what receiptDataToExpense makes of parsed receipts: the category is
\* 'Other'; the amount is 0 and the date today when they are not parsed
ReceiptExpenses ==
    { [amount |-> 0, category |-> "Other", date |-> Today],
      [amount |-> 2, category |-> "Other", date |-> startOfMonth(Today) - 20] }

\* the effect on parsedData: addExpense(receiptDataToExpense(parsedData))
AddReceiptExpense ==
    /\ Len(ops) < NumOps
    /\ Len(store) + Cardinality(Adding) < MaxExpenses
    /\ \E expense \in ReceiptExpenses : StartAddExpense(expense)
    /\ UNCHANGED <<currentFilterRef, expenses, categories, loading, error,
                   storeVars, pageVars, pipelineVars, parseVars, dbVars>>

----------------------------------------------------------------------------
(* Specifications *)

InitCalls ==
    /\ pc = [c \in Calls |-> "idle"]
    /\ file = [c \in Calls |-> <<>>]
    /\ callback = [c \in Calls |-> "omitted"]
    /\ worker = [c \in Calls |-> 0]
    /\ engines = <<>>
    /\ created = [c \in Calls |-> 0]
    /\ pdfOpen = [c \in Calls |-> FALSE]
    /\ pdfLoaded = [c \in Calls |-> FALSE]
    /\ bytesRead = [c \in Calls |-> FALSE]
    /\ source = [c \in Calls |-> "none"]
    /\ ocrText = [c \in Calls |-> <<>>]
    /\ pending = [c \in Calls |-> <<>>]
    /\ progress = [c \in Calls |-> <<>>]
    /\ result = [c \in Calls |-> <<>>]
    /\ caught = [c \in Calls |-> <<>>]
    /\ text = <<>>
    /\ parsed = <<>>
    /\ store = <<>>
    /\ queried = <<>>
    /\ activeTab = "home"
    /\ selectedPeriod = "month"
    /\ selectedCategory = "all"
    /\ dbInstance = 0
    /\ opened = 0
    /\ getters = [g \in Getters |-> [pc |-> "idle", connection |-> 0, got |-> 0]]

\* useExpenses before its effects have run
Unmounted ==
    /\ currentFilterRef = EmptyFilter
    /\ expenses = <<>>
    /\ categories = <<>>
    /\ loading = TRUE
    /\ error = Null
    /\ ops = <<>>

\* calls of parseBankReceiptPDF under any behaviour of the libraries
Init == InitCalls /\ Unmounted /\ env = FreeEnv

\* useExpenses after its mount effect
InitHook == InitCalls /\ Mounted /\ env = FreeEnv

\* the application after the effects of its first render
InitApp == InitCalls /\ RootMounted /\ env = FreeEnv

\* a pair of calls on the same file under the same behaviour of the libraries
InitSame == InitCalls /\ Unmounted /\ env \in FixedEnvs

Next ==
    \/ \E c \in Calls : Call(c)
    \/ \E c \in Calls : CreateWorkerSettled(c)
    \/ \E c \in Calls : ArrayBufferSettled(c)
    \/ \E c \in Calls : GetDocumentSettled(c)
    \/ \E c \in Calls : GetPageSettled(c)
    \/ \E c \in Calls : RenderSettled(c)
    \/ \E c \in Calls : DestroySettled(c)
    \/ \E c \in Calls : RecognizeSettled(c)
    \/ \E c \in Calls : TerminateSettled(c)

NextParse == AddFragment \/ Extract

NextReceipt == AddLine \/ Extract

NextDate == ChooseDateString \/ ParseDate

NextStore == DbAddExpense \/ DbUpdateExpense \/ DbDeleteExpense \/ DbGetFilteredExpenses

NextHook ==
    \/ FilterExpenses
    \/ FilterByPeriod
    \/ FilterByCategory
    \/ ClearFilters
    \/ AddExpense
    \/ UpdateExpense
    \/ DeleteExpense
    \/ \E i \in DOMAIN ops : WriteSettled(i)
    \/ \E i \in DOMAIN ops : LoadSettled(i)
    \/ \E i \in DOMAIN ops : LoadCategoriesSettled(i)

NextDb ==
    \/ \E g \in Getters : GetDatabase(g)
    \/ \E g \in Getters : OpenSettled(g)
    \/ \E g \in Getters : InitializeSettled(g)

NextApp ==
    \/ SelectTab
    \/ SelectPeriod
    \/ SelectCategory
    \/ AddReceiptExpense
    \/ \E i \in DOMAIN ops : WriteSettled(i)
    \/ \E i \in DOMAIN ops : LoadSettled(i)
    \/ \E i \in DOMAIN ops : LoadCategoriesSettled(i)

Spec == Init /\ [][Next]_vars
SpecSame == InitSame /\ [][Next]_vars
SpecParse == Init /\ [][NextParse]_vars
SpecReceipt == Init /\ [][NextReceipt]_vars
SpecDate == Init /\ [][NextDate]_vars
SpecStore == Init /\ [][NextStore]_vars
SpecHook == InitHook /\ [][NextHook]_vars
SpecApp == InitApp /\ [][NextApp]_vars
SpecDb == Init /\ [][NextDb]_vars


----------------------------------------------------------------------------
(* Properties of parseBankReceiptPDF *)

Done(c) == pc[c] = "done"
Res(c) == result[c][1]
\* the call was made and its file passed the checks
Validated(c) == file[c] # <<>> /\ Validate(file[c][1]) = <<>>
\* the engines createWorker returned to call c
EnginesOf(c) == {e \in DOMAIN engines : engines[e].owner = c}
\* recognition returned text that is not empty or white space only
GoodText(c) == ocrText[c] # <<>> /\ Len(Trim(ocrText[c][1])) > 0

IsPrefix(s, t) == Len(s) <= Len(t) /\ s = SubSeq(t, 1, Len(s))
Contains(s, v) == \E i \in DOMAIN s : s[i] = v

\* C1: a call of parseBankReceiptPDF never rejects: whatever the file and
\* whatever the PDF loader, the canvas, the engine or the callback do, the
\* promise resolves to a result object, and a result with success = false
\* carries a non-empty error string.
C1_NeverRejects ==
    \A c \in Calls :
        /\ Done(c) <=> result[c] # <<>>
        /\ Done(c) =>
              /\ Res(c).settled = "resolved"
              /\ ~Res(c).success => (Res(c).error # <<>> /\ Len(Res(c).error[1]) > 0)

\* a call in which a library call failed has returned
C1_Witness ==
    \E c \in Calls :
        Done(c) /\ caught[c] # <<>> /\ caught[c][1] \in LibErrors /\ ~Res(c).success

\* the message the claim gives for a file that violates a precondition
ViolationMessage(f) ==
    IF f.type \notin {"application/pdf", "application/x-pdf", "image/png"}
    THEN "Invalid file type. Please upload a PDF or image file."
    ELSE IF f.size > 10 * 1024 * 1024 THEN "File size exceeds 10MB limit."
    ELSE "File is empty."

Violates(f) ==
    \/ f.type \notin {"application/pdf", "application/x-pdf", "image/png"}
    \/ f.size = 0
    \/ f.size > 10 * 1024 * 1024

\* C2: a call whose file is neither of a pdf nor of an image type, or is
\* empty, or is larger than 10 MiB, returns success = false with the
\* PDFLoadError message of that violation, and in that call no engine is
\* requested or created, no byte of the file is read and no progress is
\* reported.
C2_PreconditionsFirst ==
    \A c \in Calls :
        (file[c] # <<>> /\ Violates(file[c][1])) =>
            /\ Done(c)
            /\ Res(c) = Resolved(FALSE, Undefined, Undefined,
                                 Some(ViolationMessage(file[c][1])))
            /\ caught[c][1].class = "PDFLoadError"
            /\ created[c] = 0
            /\ worker[c] = 0
            /\ EnginesOf(c) = {}
            /\ ~bytesRead[c]
            /\ progress[c] = <<>>

\* an empty file of an accepted type was rejected while another call runs
\* beside it with an engine
C2_Witness ==
    \E c \in Calls :
        /\ file[c] # <<>>
        /\ file[c][1].size = 0
        /\ Includes(file[c][1].type, "pdf")
        /\ Done(c)
        /\ \E d \in Calls : worker[d] # 0

\* C3 as claimed: every call that passed validation and entered
\* extractTextWithOCR has, when it returns, acquired exactly one engine.
C3_Original ==
    \A c \in Calls :
        (Done(c) /\ Validated(c) /\ created[c] > 0) => Cardinality(EnginesOf(c)) = 1

\* C3 (amended): every call that enters extractTextWithOCR calls
\* createWorker once; it owns no engine when that call is rejected and
\* exactly one, its own, when it resolves; recognize is called on that
\* engine at most once and only by its owner; terminate is called on it
\* once, only by its owner, and has settled when the call returns, whether
\* rendering or recognition succeeded or failed; calls that interleave
\* never use or terminate one another's engine.
C3_ScopedEngine ==
    /\ \A c \in Calls :
          /\ created[c] <= 1
          /\ created[c] = 0 => (worker[c] = 0 /\ EnginesOf(c) = {})
          /\ worker[c] = 0 => EnginesOf(c) = {}
          /\ worker[c] # 0 => EnginesOf(c) = {worker[c]}
          /\ (pc[c] \notin {"idle", "createWorker", "done"}) => worker[c] # 0
          /\ (Done(c) /\ worker[c] # 0) => engines[worker[c]].terminatedBy = <<c>>
          /\ (~Done(c) /\ pc[c] # "terminate" /\ worker[c] # 0)
                => engines[worker[c]].terminatedBy = <<>>
          /\ source[c] # "none" <=> (worker[c] # 0 /\ engines[worker[c]].recognizedBy = <<c>>)
    /\ \A e \in DOMAIN engines :
          /\ Len(engines[e].recognizedBy) <= 1
          /\ Len(engines[e].terminatedBy) <= 1
          /\ \A i \in DOMAIN engines[e].recognizedBy :
                engines[e].recognizedBy[i] = engines[e].owner
          /\ \A i \in DOMAIN engines[e].terminatedBy :
                engines[e].terminatedBy[i] = engines[e].owner

\* two calls have returned, each with its own terminated engine; one
\* succeeded, the other failed before recognition (its rasterizer failed)
C3_Witness ==
    \E c, d \in Calls :
        /\ c # d
        /\ Done(c) /\ Done(d)
        /\ worker[c] # 0 /\ worker[d] # 0 /\ worker[c] # worker[d]
        /\ engines[worker[c]].terminatedBy = <<c>>
        /\ engines[worker[d]].terminatedBy = <<d>>
        /\ Res(c).success /\ ~Res(d).success
        /\ source[d] = "none"

\* C4: once the rasterizer (pdfToImageDataURL) has returned or failed, no
\* document that it loaded is left open.
C4_Original ==
    \A c \in Calls :
        (pdfLoaded[c] /\ pc[c] \in {"recognize", "terminate", "done"}) => ~pdfOpen[c]

\* C5: a result has success = true exactly when recognition returned text
\* that is not empty or white space only, and then data and rawText are
\* those of the recognised text; otherwise it has success = false, an
\* error message, and neither data nor rawText.
C5_Original ==
    \A c \in Calls :
        Done(c) =>
            /\ Res(c).success <=> GoodText(c)
            /\ Res(c).success =>
                  /\ Res(c).rawText = ocrText[c]
                  /\ Res(c).data = Some(DataOf[ocrText[c][1]])
                  /\ Res(c).error = Undefined
            /\ ~Res(c).success =>
                  /\ Res(c).error # Undefined
                  /\ Res(c).data = Undefined
                  /\ Res(c).rawText = Undefined

\* C5 (amended): a result has success = true only when recognition
\* returned text that is not empty or white space only, precisely when in
\* addition nothing was thrown after it (by terminate or by the progress
\* callback), and then data and rawText are those of the recognised text;
\* whenever recognition fails or yields blank text, and whenever something
\* is thrown, the result has success = false, an error message, and
\* neither data nor rawText.
C5_NoPartialResults ==
    \A c \in Calls :
        Done(c) =>
            /\ Res(c).success => GoodText(c)
            /\ Res(c).success <=> (GoodText(c) /\ caught[c] = <<>>)
            /\ Res(c).success =>
                  /\ Res(c).rawText = ocrText[c]
                  /\ Res(c).data = Some(DataOf[ocrText[c][1]])
                  /\ Res(c).error = Undefined
            /\ ~Res(c).success =>
                  /\ Res(c).error # Undefined
                  /\ Res(c).data = Undefined
                  /\ Res(c).rawText = Undefined

\* one call succeeded with its fields, another got blank text and failed
\* with the PDFExtractionError message
C5_Witness ==
    \E c, d \in Calls :
        /\ Done(c) /\ Res(c).success
        /\ Res(c).data[1]["amount"] = Some(<<"1","2",".","5","0">>)
        /\ Done(d) /\ ocrText[d] # <<>> /\ ~GoodText(d)
        /\ caught[d][1].class = "PDFExtractionError"

\* the rasterizer failed in call c: a PDF whose try block ended by a throw
\* before worker.recognize was called
RasterizerFailed(c) ==
    /\ file[c] # <<>> /\ IsPdf(file[c][1])
    /\ worker[c] # 0
    /\ source[c] = "none"
    /\ pending[c] # <<>> /\ pending[c][1].kind = "throw"

\* C6: a failure to load or to render the document reaches the catch block
\* as a PDFLoadError and is reported by the typed branch, its message as it
\* is (when terminate did not fail in turn).
C6_Original ==
    \A c \in Calls :
        (Done(c) /\ RasterizerFailed(c) /\ caught[c] = pending[c][1].err) =>
            /\ caught[c][1].class = "PDFLoadError"
            /\ Res(c).error = Some(caught[c][1].message)

\* C7: the values passed to the progress callback are a prefix of
\* <<10, 90, 100>>; 10 is reported only by a call that passed validation,
\* and before recognition starts; 90 only after recognition returned; 100
\* only after field extraction (so the text was not blank); a call that
\* returns success with a callback has reported exactly 10, 90, 100; a call
\* without a callback reports nothing.
C7_ProgressOrder ==
    \A c \in Calls :
        /\ IsPrefix(progress[c], <<10, 90, 100>>)
        /\ progress[c] # <<>> => Validated(c)
        /\ callback[c] = "omitted" => progress[c] = <<>>
        /\ (callback[c] = "supplied" /\ created[c] > 0) => Contains(progress[c], 10)
        /\ Contains(progress[c], 90) => (ocrText[c] # <<>> /\ Done(c))
        /\ ~Done(c) => Len(progress[c]) <= 1
        /\ Contains(progress[c], 100) => GoodText(c)
        /\ (Done(c) /\ Res(c).success /\ callback[c] = "supplied")
              => progress[c] = <<10, 90, 100>>

\* a call with a callback got blank text: it reported 10 and 90 and failed
C7_Witness ==
    \E c \in Calls :
        /\ Done(c) /\ ~Res(c).success
        /\ ocrText[c] # <<>> /\ ~GoodText(c)
        /\ progress[c] = <<10, 90>>

\* what call c did to engines: createWorker, recognize and terminate calls
EngineSteps(c) ==
    << created[c],
       IF worker[c] = 0 THEN 0 ELSE Len(engines[worker[c]].recognizedBy),
       IF worker[c] = 0 THEN 0 ELSE Len(engines[worker[c]].terminatedBy) >>

\* C8: two calls on the same file under the same behaviour of the
\* libraries return the same result and perform the same engine steps,
\* whatever their callbacks are or do.
C8_Original ==
    \A c, d \in Calls :
        (Done(c) /\ Done(d)) =>
            /\ Res(c) = Res(d)
            /\ EngineSteps(c) = EngineSteps(d)


----------------------------------------------------------------------------
(* Properties of parseBankReceiptText *)

\* the positions of the field's patterns that match t anywhere
Matching(t, field) ==
    {i \in DOMAIN PatternsOf(field) : Match(t, PatternsOf(field)[i]) # <<>>}

\* the positions of the field's patterns whose trimmed capture is not empty
Capturing(t, field) ==
    {i \in DOMAIN PatternsOf(field) :
        /\ Match(t, PatternsOf(field)[i]) # <<>>
        /\ Trim(Match(t, PatternsOf(field)[i])[1]) # <<>>}

Least(S) == CHOOSE i \in S : \A j \in S : i <= j

\* the trimmed capture of pattern i of the field
CaptureOf(t, field, i) == Some(Trim(Match(t, PatternsOf(field)[i])[1]))

\* C9 as claimed: each field is the trimmed capture of the first pattern
\* of its list that matches, and is absent only when none matches.
C9_Original ==
    parsed # <<>> =>
        \A field \in FieldNames :
            LET t == parsed[1].of
                m == Matching(t, field)
            IN IF m = {} THEN parsed[1].data[field] = Undefined
               ELSE parsed[1].data[field] = CaptureOf(t, field, Least(m))

\* C9 (amended): each field is the trimmed capture of the first pattern, in
\* the field's priority order, whose trimmed capture is not empty: a pattern
\* that matches with a blank capture is passed over, and patterns after the
\* chosen one never determine the value. When no pattern has a non-empty
\* capture the field is absent, or the empty string when the last pattern of
\* the list matched with a blank capture.
C9_FirstCaptureWins ==
    parsed # <<>> =>
        \A field \in FieldNames :
            LET t == parsed[1].of
                m == Capturing(t, field)
                last == Len(PatternsOf(field))
            IN IF m # {} THEN parsed[1].data[field] = CaptureOf(t, field, Least(m))
               ELSE IF last \in Matching(t, field)
                    THEN parsed[1].data[field] = Some(<<>>)
                    ELSE parsed[1].data[field] = Undefined

\* a text with a Sender: line and a Payer: line gave the Sender value,
\* and one pattern before the winning one matched with a blank capture
C9_Witness ==
    /\ parsed # <<>>
    /\ {2, 3} \subseteq Capturing(parsed[1].of, "from")
    /\ 1 \in Matching(parsed[1].of, "from")
    /\ 1 \notin Capturing(parsed[1].of, "from")
    /\ parsed[1].data["from"] = CaptureOf(parsed[1].of, "from", 2)

\* v occurs in t as a contiguous substring
IsSubstring(v, t) ==
    \E i \in 1..(Len(t) + 1) : i + Len(v) - 1 <= Len(t) /\ SubSeq(t, i, i + Len(v) - 1) = v

\* C10: every field that is not absent is a non-empty string without
\* leading or trailing white space that occurs in the transcription.
C10_Original ==
    parsed # <<>> =>
        \A field \in FieldNames :
            LET v == parsed[1].data[field]
            IN v # Undefined =>
                  /\ v[1] # <<>>
                  /\ v[1][1] \notin WhiteSpace
                  /\ v[1][Len(v[1])] \notin WhiteSpace
                  /\ IsSubstring(v[1], parsed[1].of)


----------------------------------------------------------------------------
(* parseBankReceiptText on the sample receipts *)

\* "FROM: Alice Corp\nTO: Bob LLC\nAMOUNT: $42.50\nDATE: 2025-03-14"
EnglishReceipt ==
    <<"F","R","O","M",":"," ","A","l","i","c","e"," ","C","o","r","p","\n",
      "T","O",":"," ","B","o","b"," ","L","L","C","\n",
      "A","M","O","U","N","T",":"," ","$","4","2",".","5","0","\n",
      "D","A","T","E",":"," ","2","0","2","5","-","0","3","-","1","4">>

\* C11 as claimed: the English sample receipt yields sender "Alice Corp",
\* recipient "Bob LLC", amount "$42.50" and date "2025-03-14".
C11_Original ==
    (parsed # <<>> /\ parsed[1].of = EnglishReceipt) =>
        /\ parsed[1].data["from"] = Some(<<"A","l","i","c","e"," ","C","o","r","p">>)
        /\ parsed[1].data["to"] = Some(<<"B","o","b"," ","L","L","C">>)
        /\ parsed[1].data["amount"] = Some(<<"$","4","2",".","5","0">>)
        /\ parsed[1].data["date"] = Some(<<"2","0","2","5","-","0","3","-","1","4">>)

\* C11 (amended): the English sample receipt yields sender "Alice Corp",
\* recipient "Bob LLC", amount "42.50" (the currency symbol is matched
\* outside the capturing group) and date "2025-03-14".
C11_EnglishReceipt ==
    (parsed # <<>> /\ parsed[1].of = EnglishReceipt) =>
        /\ parsed[1].data["from"] = Some(<<"A","l","i","c","e"," ","C","o","r","p">>)
        /\ parsed[1].data["to"] = Some(<<"B","o","b"," ","L","L","C">>)
        /\ parsed[1].data["amount"] = Some(<<"4","2",".","5","0">>)
        /\ parsed[1].data["date"] = Some(<<"2","0","2","5","-","0","3","-","1","4">>)

\* the English sample receipt was extracted from
C11_Witness ==
    /\ parsed # <<>>
    /\ parsed[1].of = EnglishReceipt
    /\ parsed[1].data["amount"] # Undefined

\* "Fr\u00e5n: Handlaren AB\nBelopp: 123,45 kr"
SwedishReceipt ==
    <<"F","r","U+00E5","n",":"," ","H","a","n","d","l","a","r","e","n"," ","A","B","\n",
      "B","e","l","o","p","p",":"," ","1","2","3",",","4","5"," ","k","r">>

\* C12: the Swedish sample receipt yields sender "Handlaren AB", and its
\* amount is the capture of the Belopp pattern, which comes before the
\* currency-suffix pattern (that matches too).
C12_Original ==
    (parsed # <<>> /\ parsed[1].of = SwedishReceipt) =>
        /\ parsed[1].data["from"]
              = Some(<<"H","a","n","d","l","a","r","e","n"," ","A","B">>)
        /\ {3, 4} \subseteq Matching(SwedishReceipt, "amount")
        /\ Least(Capturing(SwedishReceipt, "amount")) = 3
        /\ parsed[1].data["amount"] = CaptureOf(SwedishReceipt, "amount", 3)
        /\ parsed[1].data["amount"] = Some(<<"1","2","3",",","4","5">>)

\* the label keywords of the five fields
LabelKeywords ==
    { <<"F","R","O","M">>, <<"S","e","n","d","e","r">>, <<"P","a","y","e","r">>,
      <<"F","r","U+00E5","n">>,
      <<"T","O">>, <<"R","e","c","i","p","i","e","n","t">>, <<"P","a","y","e","e">>,
      <<"M","e","r","c","h","a","n","t">>, <<"T","i","l","l">>,
      <<"M","o","t","t","a","g","a","r","e">>,
      <<"A","M","O","U","N","T">>, <<"T","o","t","a","l">>, <<"B","e","l","o","p","p">>,
      <<"T","R","A","N","S","A","C","T","I","O","N"," ","T","Y","P","E">>,
      <<"T","y","p","e">>,
      <<"P","a","y","m","e","n","t"," ","M","e","t","h","o","d">>,
      <<"T","r","a","n","s","a","k","t","i","o","n","s","t","y","p">>, <<"T","y","p">>,
      <<"D","A","T","E">>,
      <<"T","r","a","n","s","a","c","t","i","o","n"," ","D","a","t","e">>,
      <<"D","a","t","u","m">> }

\* word w stands at position i of t, in upper or lower case
WordAt(t, w, i) ==
    /\ i + Len(w) - 1 <= Len(t)
    /\ \A k \in 1..Len(w) : t[i + k - 1] \in Fold(w[k])

HasKeyword(t) == \E w \in LabelKeywords : \E i \in 1..Len(t) : WordAt(t, w, i)

\* a decimal amount: a decimal point or comma followed by two digits
HasDecimalAmount(t) ==
    \E i \in 1..(Len(t) - 2) :
        t[i] \in {".", ","} /\ t[i + 1] \in Digits /\ t[i + 2] \in Digits

AllIn(t, i, j, set) == \A k \in i..j : k <= Len(t) /\ t[k] \in set

\* the n characters of t from position i are an ISO-shaped date: four
\* digits, then twice a separator and one or two digits
IsoAt(t, i, n) ==
    \E m \in 1..2, d \in 1..2 :
        /\ n = 4 + 1 + m + 1 + d
        /\ i + n - 1 <= Len(t)
        /\ AllIn(t, i, i + 3, Digits)
        /\ t[i + 4] \in {"-", "/"}
        /\ AllIn(t, i + 5, i + 4 + m, Digits)
        /\ t[i + 5 + m] \in {"-", "/"}
        /\ AllIn(t, i + 6 + m, i + 5 + m + d, Digits)

HasIso(t) == \E i \in 1..Len(t), n \in 8..10 : IsoAt(t, i, n)

\* the first ISO-shaped date of t, taken as long as it goes
FirstIso(t) ==
    LET i == CHOOSE j \in 1..Len(t) :
                 /\ \E n \in 8..10 : IsoAt(t, j, n)
                 /\ \A k \in 1..(j - 1) : \A n \in 8..10 : ~IsoAt(t, k, n)
        n == CHOOSE l \in 8..10 :
                 IsoAt(t, i, l) /\ \A l2 \in (l + 1)..10 : ~IsoAt(t, i, l2)
    IN SubSeq(t, i, i + n - 1)

DateLabels ==
    { <<"D","A","T","E">>,
      <<"T","r","a","n","s","a","c","t","i","o","n"," ","D","a","t","e">>,
      <<"D","a","t","u","m">> }

\* the n characters of t from position i are a day-first date: twice one
\* or two digits and a separator, then two to four digits
DmyAt(t, i, n) ==
    \E a \in 1..2, b \in 1..2, y \in 2..4 :
        /\ n = a + 1 + b + 1 + y
        /\ i + n - 1 <= Len(t)
        /\ AllIn(t, i, i + a - 1, Digits)
        /\ t[i + a] \in {"-", "/"}
        /\ AllIn(t, i + a + 1, i + a + b, Digits)
        /\ t[i + a + b + 1] \in {"-", "/"}
        /\ AllIn(t, i + a + b + 2, i + a + b + 1 + y, Digits)

\* a date in a shape the extractor recognises, as long as it goes
DateAt(t, i, n) ==
    /\ IsoAt(t, i, n) \/ DmyAt(t, i, n)
    /\ \A l \in (n + 1)..10 : ~(IsoAt(t, i, l) \/ DmyAt(t, i, l))

\* the dates of t that follow a date label and its colons or blanks
LabeledDates(t) ==
    { SubSeq(t, x[1], x[1] + x[2] - 1) :
        x \in { y \in (1..Len(t)) \X (4..10) :
                  /\ DateAt(t, y[1], y[2])
                  /\ \E w \in DateLabels : \E i \in 1..Len(t) :
                        /\ WordAt(t, w, i)
                        /\ i + Len(w) < y[1]
                        /\ AllIn(t, i + Len(w), y[1] - 1, {":"} \cup WhiteSpace) } }

\* C16: when the transcription has a date label followed by a date in a
\* shape the extractor recognises, the date field is that labeled date,
\* also when a bare date comes earlier in the text.
C16_Original ==
    (parsed # <<>> /\ LabeledDates(parsed[1].of) # {}) =>
        /\ parsed[1].data["date"] # Undefined
        /\ parsed[1].data["date"][1] \in LabeledDates(parsed[1].of)

----------------------------------------------------------------------------
(* The route of a file to the recognition engine *)

\* C15: what reaches the recognition engine follows the kind validation
\* accepted the file as: a file whose type contains 'pdf' is rendered and
\* only the bitmap of its page is recognised, never its bytes; an image
\* file is recognised as it is.
C15_Original ==
    \A c \in Calls :
        (Validated(c) /\ source[c] # "none") =>
            IF Includes(file[c][1].type, "pdf")
            THEN source[c] = "bitmap" /\ pdfLoaded[c]
            ELSE source[c] = "file" /\ ~pdfLoaded[c]

----------------------------------------------------------------------------
(* Properties of parseDate *)

\* the date string has the shape of the first format (read as month, day,
\* year), or of the second (year, month, day)
MonthFirst ==
    /\ text # <<>>
    /\ Len(text[1]) <= 2 /\ Len(text[3]) <= 2 /\ Len(text[5]) \in 2..4

YearFirst ==
    /\ text # <<>>
    /\ Len(text[1]) = 4 /\ Len(text[3]) <= 2 /\ Len(text[5]) <= 2

\* the year a year number stands for: below 100 it is of this century
\* when below 50, else of the last one
Windowed(y) == IF y >= 100 THEN y ELSE IF y < 50 THEN 2000 + y ELSE 1900 + y

\* the components of the date string
ComponentsOf ==
    IF MonthFirst
    THEN [year |-> Windowed(parseInt(text[5])), month |-> parseInt(text[1]),
          day |-> parseInt(text[3])]
    ELSE [year |-> parseInt(text[1]), month |-> parseInt(text[3]),
          day |-> parseInt(text[5])]

IsCalendarDate(d) ==
    /\ d.month \in 1..12
    /\ d.day >= 1
    /\ d.day <= DaysInMonth(d.year, d.month - 1)

\* C18: for a string in one of the two numeric formats parseDate returns
\* the date with the parsed year, month and day when they are a calendar
\* date, and null when they are not (a month outside 1..12, a day beyond
\* the month's length); it never returns another date.
C18_Original ==
    (parsed # <<>> /\ (MonthFirst \/ YearFirst)) =>
        parsed[1].date = IF IsCalendarDate(ComponentsOf) THEN Some(ComponentsOf)
                                                         ELSE Null

----------------------------------------------------------------------------
(* Properties of getFilteredExpenses *)

\* the expenses in the store
Stored == {store[i][1] : i \in {j \in DOMAIN store : store[j] # <<>>}}

\* the expense satisfies every criterion the filter has a value for
Satisfies(filter, e) ==
    /\ filter.category # Undefined => e.category = filter.category[1]
    /\ filter.startDate # Undefined => e.date >= filter.startDate[1]
    /\ filter.endDate # Undefined => e.date <= filter.endDate[1]
    /\ filter.minAmount # Undefined => e.amount >= filter.minAmount[1]
    /\ filter.maxAmount # Undefined => e.amount <= filter.maxAmount[1]

\* the same, a category that is the empty string counting as none
SatisfiesGiven(filter, e) ==
    Satisfies([filter EXCEPT !.category = IF @ = Some("") THEN Undefined ELSE @], e)

\* both dates are given and the start is after the end
Inverted(filter) ==
    /\ filter.startDate # Undefined
    /\ filter.endDate # Undefined
    /\ filter.startDate[1] > filter.endDate[1]

\* C17 as claimed: for every store and filter getFilteredExpenses returns
\* the stored expenses that satisfy every criterion of the filter, each once.
C17_Original ==
    queried # <<>> =>
        /\ queried[1].outcome.ok
        /\ ElementsOf(queried[1].outcome.data)
              = {e \in Stored : Satisfies(queried[1].filter, e)}
        /\ Len(queried[1].outcome.data) = Cardinality(ElementsOf(queried[1].outcome.data))

\* C17 (amended): for every store and every filter whose start date is not
\* after its end date, getFilteredExpenses returns the stored expenses that
\* satisfy every criterion of the filter, each once, whichever index it
\* starts from, a category that is the empty string counting as not given;
\* a filter with one date bound or with amount bounds only is applied. When
\* the start date is after the end date the call is rejected (DataError).
C17_FilteredExactly ==
    queried # <<>> =>
        IF Inverted(queried[1].filter)
        THEN ~queried[1].outcome.ok /\ queried[1].outcome.error = "DataError"
        ELSE /\ queried[1].outcome.ok
             /\ ElementsOf(queried[1].outcome.data)
                   = {e \in Stored : SatisfiesGiven(queried[1].filter, e)}
             /\ Len(queried[1].outcome.data)
                   = Cardinality(ElementsOf(queried[1].outcome.data))

\* a query by category and start date alone (the category index) returned
\* one of two stored expenses of that category
C17_Witness ==
    /\ queried # <<>>
    /\ queried[1].filter.category = Some("Other")
    /\ queried[1].filter.startDate # Undefined
    /\ queried[1].filter.endDate = Undefined
    /\ Cardinality({e \in Stored : e.category = "Other"}) = 2
    /\ queried[1].outcome.ok
    /\ Len(queried[1].outcome.data) = 1

----------------------------------------------------------------------------
(* Properties of useExpenses *)

\* a read or a write of the expenses is in flight
InFlight == \E i \in DOMAIN ops : ops[i].kind # "categories"

NewestFirst(seq) == \A i, j \in DOMAIN seq : i < j => seq[i].date >= seq[j].date

\* expenses holds the stored expenses satisfying the filter, each once,
\* newest first
ShowsFiltered(filter) ==
    /\ ElementsOf(expenses) = {e \in Stored : Satisfies(filter, e)}
    /\ Len(expenses) = Cardinality(ElementsOf(expenses))
    /\ NewestFirst(expenses)

\* C19 as claimed: after any sequence of filterExpenses, filterByPeriod,
\* filterByCategory, clearFilters, addExpense, updateExpense and
\* deleteExpense calls whose loads succeed, once nothing is in flight the
\* expenses state is the store contents filtered by currentFilterRef, newest
\* first, in whatever order overlapping loads complete.
C19_Original ==
    (~InFlight /\ error = Null) => ShowsFiltered(currentFilterRef)

----------------------------------------------------------------------------
(* Properties of the pages *)

\* the date range of the filter, when it has both dates
DateRangeOf(filter) ==
    IF filter.startDate # Undefined /\ filter.endDate # Undefined
    THEN Some([startDate |-> filter.startDate[1], endDate |-> filter.endDate[1]])
    ELSE Undefined

\* C20 as claimed: on the home page the date range of the active expense
\* filter is the range of the period selected in the PeriodFilter, so the
\* figures under 'This Week/Month/Year' are those of that period.
C20_Original ==
    activeTab = "home" =>
        DateRangeOf(currentFilterRef) = Some(getDateRangeForPeriod(selectedPeriod))

\* the category the filter selects: 'all' when it has none
CategoryOf(filter) ==
    IF filter.category = Undefined THEN "all" ELSE filter.category[1]

\* C21 as claimed: on the Expenses page the category shown as selected is
\* the category of the active expense filter ('all' exactly when the filter
\* has no category), after any sequence of category selections and switches
\* between the Home and Expenses tabs.
C21_Original ==
    activeTab = "expenses" => selectedCategory = CategoryOf(currentFilterRef)

----------------------------------------------------------------------------
(* Properties of getDatabase *)

\* the instances the callers of getDatabase received
Received == {getters[g].got : g \in {h \in Getters : getters[h].pc = "returned"}}

\* C22 as claimed: openDB is called at most once, also when getDatabase is
\* called again before the first open has completed, and every caller
\* receives the same instance.
C22_Original ==
    /\ opened <= 1
    /\ Cardinality(Received) <= 1

====
